---- MODULE Spec2Model ----
(***************************************************************************)
(* Model of app.py of BusinessWarmer: the "Generate Outreach Email"        *)
(* button handler and the two helpers it calls, scrape_website_content     *)
(* and generate_llm_pitch, with the text helper clean_text.                *)
(*                                                                         *)
(* A Python str is a sequence of one-character strings.  Code points that  *)
(* have no TLA+ literal are named by a token (NUL, NBSP).  None is the     *)
(* one-element sequence <<"None">>, which no str can equal because every   *)
(* element of a str is a single character.                                 *)
(***************************************************************************)
EXTENDS Integers, Sequences, FiniteSets, TLC

VARIABLES
    pc,                 \* position of the script run
    page,               \* the document the website serves
    website_url,        \* st.text_input value
    netloc,             \* parsed_url.netloc of the run
    fetchCalls,         \* calls of requests.get in this run
    completionCalls,    \* calls of hf_client.text_generation in this run
    response,           \* outcome of requests.get: [status, doc]
    raw_text,           \* raw_text of scrape_website_content / argument of clean_text
    scraped_data,       \* result of scrape_website_content
    completion,         \* outcome of hf_client.text_generation: [ok, text], or NoCompletion
    content_to_analyze, \* website text embedded in the prompt
    raw_output,         \* raw_output of generate_llm_pitch
    generated_pitch,    \* result of generate_llm_pitch
    display_name,       \* display_name of the subject refinement
    displayed,          \* the pitch rendered by st.markdown
    ui                  \* st.error / st.warning / st.success / st.info messages of the run

vars == <<pc, page, website_url, netloc, fetchCalls, completionCalls, response,
          raw_text, scraped_data, completion, content_to_analyze, raw_output, generated_pitch,
          display_name, displayed, ui>>

----------------------------------------------------------------------------
(* Bounds *)

\* longest argument of clean_text that is enumerated
MaxTextLen == 5

----------------------------------------------------------------------------
(* Python values *)

None == <<"None">>

\* bool(x) of a str-or-None value
Truthy(x) == x # None /\ x # << >>

NUL == "U+0000"
NBSP == "U+00A0"

\* str.isspace, the class \s of re on str patterns
IsSpace(c) == c \in {" ", "\t", "\n", "\r", "\f", NBSP}

\* str.isprintable: the ASCII space is the only printable whitespace
IsPrintable(c) == c \notin {"\t", "\n", "\r", "\f", NBSP, NUL}

Lowers == <<"a","b","c","d","e","f","g","h","i","j","k","l","m",
            "n","o","p","q","r","s","t","u","v","w","x","y","z">>
Uppers == <<"A","B","C","D","E","F","G","H","I","J","K","L","M",
            "N","O","P","Q","R","S","T","U","V","W","X","Y","Z">>

Range(s) == {s[i] : i \in DOMAIN s}

\* str.lower / str.upper on one character
Lower(c) == IF \E i \in DOMAIN Uppers : Uppers[i] = c
            THEN Lowers[CHOOSE i \in DOMAIN Uppers : Uppers[i] = c] ELSE c
Upper(c) == IF \E i \in DOMAIN Lowers : Lowers[i] = c
            THEN Uppers[CHOOSE i \in DOMAIN Lowers : Lowers[i] = c] ELSE c

\* s[i:] with a 0-based i of Python
From(s, i) == SubSeq(s, i + 1, Len(s))

\* s[:n]
Prefix(s, n) == SubSeq(s, 1, IF Len(s) < n THEN Len(s) ELSE n)

RECURSIVE LStrip(_)
LStrip(s) == IF s # << >> /\ IsSpace(Head(s)) THEN LStrip(Tail(s)) ELSE s

RECURSIVE RStrip(_)
RStrip(s) == IF s # << >> /\ IsSpace(s[Len(s)])
             THEN RStrip(SubSeq(s, 1, Len(s) - 1)) ELSE s

\* str.strip()
Strip(s) == RStrip(LStrip(s))

\* re.sub(r'\s+', ' ', text): every maximal run of whitespace becomes one space
RECURSIVE SubWhitespace(_)
SubWhitespace(s) ==
    IF s = << >> THEN << >>
    ELSE IF IsSpace(Head(s))
         THEN <<" ">> \o SubWhitespace(LStrip(s))
         ELSE <<Head(s)>> \o SubWhitespace(Tail(s))

\* ''.join(char for char in text if char.isprintable())
KeepPrintable(s) == SelectSeq(s, IsPrintable)

clean_text(text) == Strip(KeepPrintable(SubWhitespace(text)))

\* all sequences of at most n elements of A
SeqsUpTo(A, n) == UNION {[1..k -> A] : k \in 0..n}

----------------------------------------------------------------------------
(* The parsed document (BeautifulSoup, html.parser)                        *)
(*                                                                         *)
(* A document is the sequence of its nodes in document order.  A node is   *)
(* [tag, parent, role, text]: parent is the index of the enclosing element *)
(* (0 for a child of the soup itself), role the role attribute ("" when    *)
(* absent) and text the string of a NavigableString node (tag "#text").    *)
(* Removing an element keeps the indices: the tree is the document plus    *)
(* the set of nodes still attached to it.                                  *)

Elem(t, p) == [tag |-> t, parent |-> p, role |-> "", text |-> << >>]
ElemRole(t, p, r) == [tag |-> t, parent |-> p, role |-> r, text |-> << >>]
Text(s, p) == [tag |-> "#text", parent |-> p, role |-> "", text |-> s]

RECURSIVE Ancestors(_, _)
Ancestors(doc, i) ==
    IF doc[i].parent = 0 THEN {}
    ELSE {doc[i].parent} \cup Ancestors(doc, doc[i].parent)

\* an element with everything inside it
Subtree(doc, i) == {i} \cup {j \in DOMAIN doc : i \in Ancestors(doc, j)}

\* the nodes of a set in document order
RECURSIVE InOrder(_)
InOrder(S) ==
    IF S = {} THEN << >>
    ELSE LET m == CHOOSE x \in S : \A y \in S : x <= y
         IN <<m>> \o InOrder(S \ {m})

\* scope.find_all(names) on the attached nodes; scope 0 is the soup
find_all(alive, doc, scope, names) ==
    {i \in alive : /\ doc[i].tag \in names
                   /\ scope # 0 => scope \in Ancestors(doc, i)}

\* element.decompose() for every element of a find_all result
decompose(alive, doc, found) ==
    alive \ UNION {Subtree(doc, i) : i \in found}

\* soup.find(name): the first match in document order, 0 for None
find(alive, doc, name) ==
    LET found == find_all(alive, doc, 0, {name})
    IN IF found = {} THEN 0 ELSE CHOOSE i \in found : \A j \in found : i <= j

\* soup.find('div', role='main')
find_role(alive, doc, name, r) ==
    LET found == {i \in find_all(alive, doc, 0, {name}) : doc[i].role = r}
    IN IF found = {} THEN 0 ELSE CHOOSE i \in found : \A j \in found : i <= j

\* a or b on Tag-or-None values: a Tag is always truthy
Or(a, b) == IF a # 0 THEN a ELSE b

\* separator.join(strings)
RECURSIVE Join(_, _)
Join(strings, sep) ==
    IF strings = << >> THEN << >>
    ELSE IF Len(strings) = 1 THEN Head(strings)
    ELSE Head(strings) \o sep \o Join(Tail(strings), sep)

NonEmpty(s) == s # << >>

\* target.get_text(separator=' ', strip=True): the strings inside target in
\* document order, each stripped, the empty ones skipped
get_text(alive, doc, target) ==
    LET nodes == InOrder(find_all(alive, doc, target, {"#text"}))
        strings == [k \in DOMAIN nodes |-> Strip(doc[nodes[k]].text)]
    IN Join(SelectSeq(strings, NonEmpty), <<" ">>)

initial_cleanup == {"script", "style", "aside", "link", "meta"}

elements_to_remove == <<"script", "style", "nav", "footer", "header", "aside",
                        "button", "form", "iframe", "img", "figure", "figcaption">>

\* lines 63-64: the nodes left after the initial cleanup
after_initial_cleanup(doc) ==
    decompose(DOMAIN doc, doc, find_all(DOMAIN doc, doc, 0, initial_cleanup))

\* line 67
main_content(alive, doc) ==
    Or(find(alive, doc, "main"),
       Or(find(alive, doc, "article"), find_role(alive, doc, "div", "main")))

\* a variant of target_element that prefers body to the main content
target_element_body_first(alive, doc) ==
    Or(find(alive, doc, "body"), main_content(alive, doc))

\* a variant of target_element that falls back to the first element of any name
target_element_any_element(alive, doc) ==
    LET elements == {i \in alive : doc[i].tag # "#text"}
    IN Or(main_content(alive, doc),
          Or(find(alive, doc, "body"),
             IF elements = {} THEN 0 ELSE CHOOSE i \in elements : \A j \in elements : i <= j))

\* line 68: main_content or soup.find('body')
target_element(alive, doc) == Or(main_content(alive, doc), find(alive, doc, "body"))

\* lines 74-76: one find_all and its decomposes per tag name, in list order
RECURSIVE clean_within(_, _, _, _)
clean_within(alive, doc, target, names) ==
    IF names = << >> THEN alive
    ELSE clean_within(
            decompose(alive, doc, find_all(alive, doc, target, {Head(names)})),
            doc, target, Tail(names))

Msg(k, t) == [kind |-> k, text |-> t]

\* lines 59-85 of scrape_website_content on a response that was fetched:
\* the raw text, the value returned and the messages written
scrape_document(doc) ==
    LET alive == after_initial_cleanup(doc)
        target == target_element(alive, doc)
        raw == get_text(clean_within(alive, doc, target, elements_to_remove), doc, target)
    IN IF target # 0
       THEN [raw |-> raw, result |-> clean_text(raw),
             msgs |-> <<Msg("success", "Successfully scraped content")>>]
       ELSE [raw |-> << >>, result |-> None,
             msgs |-> <<Msg("error", "Could not find 'main', 'article', 'div[role=main]', or even 'body' tag")>>]

----------------------------------------------------------------------------
(* str helpers of the handler and of generate_llm_pitch *)

Str_Subject == <<"S","u","b","j","e","c","t",":">>
Str_www == <<"w","w","w",".">>
generic_subject_part ==
    <<"a","t"," ","Y","o","u","r"," ","B","u","s","i","n","e","s","s">>

IsLetter(c) == c \in Range(Lowers) \cup Range(Uppers)
IsDigit(c) == c \in {"0","1","2","3","4","5","6","7","8","9"}

\* s.startswith(p)
StartsWith(s, p) == Len(p) <= Len(s) /\ SubSeq(s, 1, Len(p)) = p

\* the 0-based places where pat matches in s, letter case ignored or not
MatchesAt(s, i, pat, ignorecase) ==
    /\ i + Len(pat) <= Len(s)
    /\ \A k \in 1..Len(pat) :
          IF ignorecase THEN Lower(s[i + k]) = Lower(pat[k]) ELSE s[i + k] = pat[k]

\* a variant of re_search without re.IGNORECASE
re_search_case_sensitive(pat, s) ==
    LET hits == {i \in 0..Len(s) : MatchesAt(s, i, pat, FALSE)}
    IN IF hits = {} THEN -1 ELSE CHOOSE i \in hits : \A j \in hits : i <= j

\* re.search(pat, s, re.IGNORECASE).start() for a literal pat, -1 for no match
re_search(pat, s) ==
    LET hits == {i \in 0..Len(s) : MatchesAt(s, i, pat, TRUE)}
    IN IF hits = {} THEN -1 ELSE CHOOSE i \in hits : \A j \in hits : i <= j

\* sub in s
Contains(s, sub) == \E i \in 0..Len(s) : MatchesAt(s, i, sub, FALSE)

\* s.replace(old, new), old not empty
RECURSIVE Replace(_, _, _)
Replace(s, old, new) ==
    IF Len(s) < Len(old) THEN s
    ELSE IF StartsWith(s, old)
         THEN new \o Replace(From(s, Len(old)), old, new)
         ELSE <<Head(s)>> \o Replace(Tail(s), old, new)

\* s.split(c) on a one-character separator
RECURSIVE Split(_, _)
Split(s, c) ==
    IF c \notin Range(s) THEN <<s>>
    ELSE LET i == CHOOSE k \in DOMAIN s : s[k] = c /\ \A j \in 1..(k - 1) : s[j] # c
         IN <<SubSeq(s, 1, i - 1)>> \o Split(From(s, i), c)

IsLineBreak(c) == c \in {"\n", "\r", "\f"}

\* s.splitlines(): "\r\n" is one break, a final break opens no line
RECURSIVE splitlines(_)
splitlines(s) ==
    IF s = << >> THEN << >>
    ELSE IF \A k \in DOMAIN s : ~IsLineBreak(s[k]) THEN <<s>>
    ELSE LET i == CHOOSE k \in DOMAIN s :
                     IsLineBreak(s[k]) /\ \A j \in 1..(k - 1) : ~IsLineBreak(s[j])
             n == IF s[i] = "\r" /\ i < Len(s) /\ s[i + 1] = "\n" THEN i + 1 ELSE i
         IN <<SubSeq(s, 1, i - 1)>> \o splitlines(From(s, n))

\* str.capitalize(): the first character upper case, all the others lower case
capitalize(s) ==
    [k \in DOMAIN s |-> IF k = 1 THEN Upper(s[k]) ELSE Lower(s[k])]

\* urlparse(url): scheme and netloc as urlsplit finds them
urlparse(url) ==
    LET colons == {k \in DOMAIN url : url[k] = ":"}
        c == IF colons = {} THEN 0 ELSE CHOOSE k \in colons : \A j \in colons : k <= j
        hasScheme == /\ c > 1
                     /\ IsLetter(url[1])
                     /\ \A k \in 1..(c - 1) :
                            IsLetter(url[k]) \/ IsDigit(url[k]) \/ url[k] \in {"+", "-", "."}
        rest == IF hasScheme THEN From(url, c) ELSE url
        ends == {k \in DOMAIN rest : k > 2 /\ rest[k] \in {"/", "?", "#"}}
        e == IF ends = {} THEN Len(rest) + 1 ELSE CHOOSE k \in ends : \A j \in ends : k <= j
    IN [scheme |-> IF hasScheme THEN [k \in 1..(c - 1) |-> Lower(url[k])] ELSE << >>,
        netloc |-> IF StartsWith(rest, <<"/", "/">>) THEN SubSeq(rest, 3, e - 1) ELSE << >>]

\* a variant of valid_structure that forgets the host
valid_structure_scheme_only(parsed_url) ==
    parsed_url.scheme \in {<<"h","t","t","p">>, <<"h","t","t","p","s">>}

\* line 193: all([parsed_url.scheme in ['http', 'https'], parsed_url.netloc])
valid_structure(parsed_url) ==
    /\ parsed_url.scheme \in {<<"h","t","t","p">>, <<"h","t","t","p","s">>}
    /\ parsed_url.netloc # << >>

----------------------------------------------------------------------------
(* generate_llm_pitch and the subject refinement *)

MAX_SCRAPED_TEXT_LENGTH == 4000

\* the outcome of hf_client.text_generation: an exception or the text returned
Raised == [ok |-> FALSE, text |-> << >>]
Returned(r) == [ok |-> TRUE, text |-> r]

\* lines 144-159: the parsing of a response that was returned
parse_response(text) ==
    LET raw == Strip(text)
        start == re_search(Str_Subject, raw)
    IN IF start # -1
       THEN [raw_output |-> raw, pitch |-> Strip(From(raw, start)),
             msgs |-> <<Msg("success", "Email pitch generated successfully!")>>]
       ELSE [raw_output |-> raw, pitch |-> raw,
             msgs |-> <<Msg("warning", "Could not specifically find 'Subject:' in the LLM output"),
                        Msg("success", "Email pitch generated successfully (using fallback parsing)!")>>]

\* a variant of truncate that cuts one character late
truncate_one_late(scraped_content) == Prefix(scraped_content, MAX_SCRAPED_TEXT_LENGTH + 1)

\* lines 106-109: the website text embedded in the prompt
truncate(scraped_content) == Prefix(scraped_content, MAX_SCRAPED_TEXT_LENGTH)

\* generate_llm_pitch(scraped_content, ...) when hf_client.text_generation ends
\* with `outcome`: whether the backend was called, the text embedded in the
\* prompt, raw_output, the value returned and the messages written
generate_llm_pitch(scraped_content, outcome) ==
    IF ~Truthy(scraped_content)
    THEN [called |-> FALSE, content |-> None, raw_output |-> None, pitch |-> None,
          msgs |-> <<Msg("warning", "No content scraped, cannot generate pitch.")>>]
    ELSE LET info == IF Len(scraped_content) > MAX_SCRAPED_TEXT_LENGTH
                     THEN <<Msg("info", "Website text truncated")>> ELSE << >>
         IN IF ~outcome.ok
            THEN [called |-> TRUE, content |-> truncate(scraped_content),
                  raw_output |-> None, pitch |-> None,
                  msgs |-> info \o <<Msg("error", "Error during LLM generation")>>]
            ELSE LET p == parse_response(outcome.text)
                 IN [called |-> TRUE, content |-> truncate(scraped_content),
                     raw_output |-> p.raw_output, pitch |-> p.pitch,
                     msgs |-> info \o p.msgs]

\* lines 218-224: the display name of the domain
derive_display_name(domain0) ==
    LET domain == IF StartsWith(domain0, Str_www) THEN From(domain0, 4) ELSE domain0
        parts == Split(Replace(domain, <<"-">>, <<" ">>), ".")
        joined == Join([k \in DOMAIN parts |-> capitalize(parts[k])], <<".">>)
    IN Replace(joined, <<" ">>, <<"-">>)

\* lines 216-235: display name, the pitch with its first line refined, messages
refine_subject(pitch, domain) ==
    LET name == derive_display_name(domain)
        lines == splitlines(pitch)
    IN IF lines # << >> /\ Contains(lines[1], generic_subject_part)
       THEN [display_name |-> name,
             pitch |-> Join([lines EXCEPT ![1] =
                               Replace(lines[1], generic_subject_part, <<"a","t"," ">> \o name)],
                            <<"\n">>),
             msgs |-> <<Msg("caption", "Subject line potentially customized with domain name")>>]
       ELSE [display_name |-> name, pitch |-> pitch, msgs |-> << >>]

\* line 205 and line 212: if scraped_data / if generated_pitch
has_content(x) == Truthy(x)

----------------------------------------------------------------------------
(* The script run of one button click *)

NoResponse == [status |-> "none", doc |-> << >>]

NoCompletion == [ok |-> FALSE, text |-> None]

Idle ==
    /\ pc = "idle"
    /\ page = << >>
    /\ website_url = << >>
    /\ netloc = << >>
    /\ fetchCalls = 0
    /\ completionCalls = 0
    /\ response = NoResponse
    /\ raw_text = << >>
    /\ scraped_data = None
    /\ completion = NoCompletion
    /\ content_to_analyze = None
    /\ raw_output = None
    /\ generated_pitch = None
    /\ display_name = None
    /\ displayed = None
    /\ ui = << >>

Init == Idle

\* lines 188-200 and 244-248: the click with `url` in the text input, up to the
\* call of scrape_website_content
Click(url) ==
    /\ pc = "idle"
    /\ website_url' = url
    /\ IF url = << >>
       THEN /\ ui' = <<Msg("warning", "Please enter a website URL.")>>
            /\ pc' = "done"
            /\ UNCHANGED netloc
       ELSE IF ~valid_structure(urlparse(url))
       THEN /\ ui' = <<Msg("error", "Invalid URL entered")>>
            /\ pc' = "done"
            /\ UNCHANGED netloc
       ELSE /\ ui' = << >>
            /\ pc' = "scrape"
            /\ netloc' = urlparse(url).netloc
    /\ UNCHANGED <<page, fetchCalls, completionCalls, response, raw_text, scraped_data,
                   completion, content_to_analyze, raw_output, generated_pitch, display_name,
                   displayed>>

\* a variant of scrape_failure that returns the message instead of None
scrape_failure_returns_message(kind) ==
    [raw |-> << >>, result |-> <<"e","r","r","o","r">>, msgs |-> <<Msg("error", kind)>>]

\* lines 87-98: what scrape_website_content makes of a request that failed
scrape_failure(kind) ==
    [raw |-> << >>, result |-> None, msgs |-> <<Msg("error", kind)>>]

FetchErrors == {"Timeout", "HTTPError", "RequestException", "Exception"}

\* lines 203-207 and 241-242: the handler from the return of
\* scrape_website_content with result s to the call of generate_llm_pitch
AfterScrape(s) ==
    /\ raw_text' = s.raw
    /\ scraped_data' = s.result
    /\ IF has_content(s.result)
       THEN /\ ui' = ui \o s.msgs
            /\ pc' = "generate"
       ELSE /\ ui' = ui \o s.msgs \o <<Msg("error", "Could not get usable content")>>
            /\ pc' = "done"
    /\ UNCHANGED <<page, website_url, netloc, completionCalls, completion,
                   content_to_analyze, raw_output,
                   generated_pitch, display_name, displayed>>

\* scrape_website_content when requests.get or raise_for_status raises
ScrapeFails(kind) ==
    /\ pc = "scrape"
    /\ fetchCalls' = fetchCalls + 1
    /\ response' = [status |-> kind, doc |-> << >>]
    /\ AfterScrape(scrape_failure(kind))

\* scrape_website_content when the response arrives with document doc
ScrapeResponse(doc) ==
    /\ pc = "scrape"
    /\ fetchCalls' = fetchCalls + 1
    /\ response' = [status |-> "ok", doc |-> doc]
    /\ AfterScrape(scrape_document(doc))

\* lines 210-240: generate_llm_pitch with the backend ending in `outcome`,
\* then the subject refinement and the rendering
Generate(outcome) ==
    /\ pc = "generate"
    /\ LET g == generate_llm_pitch(scraped_data, outcome)
       IN /\ completionCalls' = completionCalls + (IF g.called THEN 1 ELSE 0)
          /\ completion' = IF g.called THEN outcome ELSE NoCompletion
          /\ content_to_analyze' = g.content
          /\ raw_output' = g.raw_output
          /\ generated_pitch' = g.pitch
          /\ IF has_content(g.pitch)
             THEN LET r == refine_subject(g.pitch, netloc)
                  IN /\ display_name' = r.display_name
                     /\ displayed' = r.pitch
                     /\ ui' = ui \o g.msgs \o r.msgs
             ELSE /\ ui' = ui \o g.msgs
                           \o <<Msg("error", "Failed to generate email pitch after scraping.")>>
                  /\ UNCHANGED <<display_name, displayed>>
    /\ pc' = "done"
    /\ UNCHANGED <<page, website_url, netloc, fetchCalls, response, raw_text, scraped_data>>

GenerateFails == Generate(Raised)

GenerateResponse(r) == Generate(Returned(r))

\* the next interaction reruns the script from the top
Rerun ==
    /\ pc = "done"
    /\ pc' = "idle"
    /\ UNCHANGED page
    /\ website_url' = << >>
    /\ netloc' = << >>
    /\ fetchCalls' = 0
    /\ completionCalls' = 0
    /\ response' = NoResponse
    /\ raw_text' = << >>
    /\ scraped_data' = None
    /\ completion' = NoCompletion
    /\ content_to_analyze' = None
    /\ raw_output' = None
    /\ generated_pitch' = None
    /\ display_name' = None
    /\ displayed' = None
    /\ ui' = << >>

----------------------------------------------------------------------------
(* Inputs *)

\* nodes of the largest enumerated document
MaxNodes == 4

\* pieces of the longest enumerated completion
MaxPieces == 3

\* labels of the longest enumerated domain
MaxLabels == 4

\* characters by which the longest website text exceeds the limit
Overrun == 1000

\* letter strides of the enumerated long website texts
MaxStride == 6

Url_empty == << >>
Url_not_a_url == <<"n","o","t","-","a","-","u","r","l">>
Url_no_host == <<"h","t","t","p",":","/","/">>
Url_ftp == <<"f","t","p",":","/","/","a",".","b">>
Url_no_scheme == <<"/","/","a",".","b">>
Url_one_slash == <<"h","t","t","p",":","/","a",".","b">>
Url_shop == <<"h","t","t","p","s",":","/","/","w","w","w",".","m","y","-","s","h","o","p",".","c","o",".","u","k">>
Url_upper == <<"H","T","T","P",":","/","/","a",".","b","/","x","?","y">>
Url_port == <<"h","t","t","p","s",":","/","/","a","B",".","u","k",":","8","0">>
Url_plain == <<"h","t","t","p",":","/","/","w","w","w",".","a","-","b","-","c",".","i","o","/">>

Urls == {Url_empty, Url_not_a_url, Url_no_host, Url_ftp, Url_no_scheme,
         Url_one_slash, Url_shop, Url_upper, Url_port, Url_plain}

\* <body><nav>Menu</nav><main>Hello <script>x</script>World</main></body>
Doc_example ==
    <<Elem("body", 0), Elem("nav", 1), Text(<<"M","e","n","u">>, 2),
      Elem("main", 1), Text(<<"H","e","l","l","o"," ">>, 4), Elem("script", 4), Text(<<"x">>, 6),
      Text(<<"W","o","r","l","d">>, 4)>>

\* <p>Hi</p>
Doc_no_body == <<Elem("p", 0), Text(<<"H","i">>, 1)>>

\* <body><nav>Menu</nav><footer>x</footer></body>
Doc_only_nav ==
    <<Elem("body", 0), Elem("nav", 1), Text(<<"M","e","n","u">>, 2), Elem("footer", 1), Text(<<"x">>, 4)>>

\* <body><p>a \0 b</p><div>\n c\t</div></body>
Doc_dirty ==
    <<Elem("body", 0), Elem("p", 1), Text(<<"a"," ",NUL," ","b">>, 2), Elem("div", 1), Text(<<"\n"," ","c","\t">>, 4)>>

\* <div>intro</div><div role="main">M</div><article>A</article>
Doc_roles ==
    <<Elem("div", 0), Text(<<"i","n","t","r","o">>, 1), ElemRole("div", 0, "main"), Text(<<"M">>, 3),
      Elem("article", 0), Text(<<"A">>, 5)>>

Docs == {Doc_example, Doc_no_body, Doc_only_nav, Doc_dirty, Doc_roles}

Resp_subject == <<"S","u","b","j","e","c","t",":"," ","O","p","s"," ","a","t"," ","Y","o","u","r"," ","B","u","s","i","n","e","s","s","\n","H","i">>
Resp_preamble == <<" ","S","o","m","e"," ","p","r","e","a","m","b","l","e",".","\n","S","U","B","J","E","C","T",":"," ","H","e","l","l","o","\n","a","t"," ","Y","o","u","r"," ","B","u","s","i","n","e","s","s"," ">>
Resp_no_marker == <<"N","o"," ","m","a","r","k","e","r"," ","a","t"," ","Y","o","u","r"," ","B","u","s","i","n","e","s","s">>
Resp_blank == <<" ","\n"," ">>
Resp_empty == << >>

Responses == {Resp_subject, Resp_preamble, Resp_no_marker, Resp_blank, Resp_empty}

\* The documents of at most MaxNodes nodes over GenTags are built node by
\* node; the text node at index k holds the k-th letter, so a letter of the
\* text names its node
GenTags == {"main", "article", "div", "body", "nav", "aside", "#text"}

GenNode(t, p, k) ==
    IF t = "#text" THEN Text(<<Lowers[k]>>, p)
    ELSE IF t = "div" THEN ElemRole("div", p, "main")
    ELSE Elem(t, p)

\* the elements still open after the last node of d: where the next node may go
OpenElements(d) ==
    IF d = << >> THEN {0}
    ELSE {0} \cup {q \in {Len(d)} \cup Ancestors(d, Len(d)) : d[q].tag # "#text"}

\* the documents that have one node more than d
Extend(d) ==
    {Append(d, GenNode(t, p, Len(d) + 1)) : t \in GenTags, p \in OpenElements(d)}

\* the completions made of at most MaxPieces pieces
Pieces == {Str_Subject, <<"S","U","B","J","E","C","T",":">>, <<"s","u","b","j","e","c","t",":">>, <<"S","u","b","j">>, <<" ">>, <<"\n">>, <<"x">>}

\* the completion made of the pieces ps
GenResponse(ps) == Join(ps, << >>)

\* the URLs http://<domain> whose domain has at most MaxLabels labels
Labels == {<<"w","w","w">>, <<"m","y","-","s","h","o","p">>, <<"c","o">>, <<"u","k">>, <<"a","B">>}

\* the URL of the domain made of the labels ls
GenUrl(ls) == <<"h","t","t","p",":","/","/">> \o Join(ls, <<".">>)

\* website texts around the limit: the i-th character is a letter
LongText(len, stride) == [i \in 1..len |-> Lowers[((i * stride) % 26) + 1]]

LongTexts ==
    {LongText(len, stride) :
        len \in {1, MAX_SCRAPED_TEXT_LENGTH - 1, MAX_SCRAPED_TEXT_LENGTH,
                 MAX_SCRAPED_TEXT_LENGTH + 1, MAX_SCRAPED_TEXT_LENGTH + Overrun},
        stride \in 1..MaxStride}

\* the characters of the enumerated arguments of clean_text
CleanAlphabet == {"a", " ", "\n", NBSP, NUL}

----------------------------------------------------------------------------
(* Specifications *)

\* the whole run on the catalogued inputs
Next ==
    \/ \E url \in Urls : Click(url)
    \/ \E kind \in FetchErrors : ScrapeFails(kind)
    \/ \E doc \in Docs : ScrapeResponse(doc)
    \/ GenerateFails
    \/ \E r \in Responses : GenerateResponse(r)
    \/ Rerun

Spec == Init /\ [][Next]_vars

\* clean_text on every str of at most MaxTextLen characters, then on its own result
InitClean ==
    /\ pc = "clean"
    /\ raw_text \in SeqsUpTo(CleanAlphabet, MaxTextLen)
    /\ page = << >>
    /\ website_url = << >>
    /\ netloc = << >>
    /\ fetchCalls = 0
    /\ completionCalls = 0
    /\ response = NoResponse
    /\ scraped_data = None
    /\ completion = NoCompletion
    /\ content_to_analyze = None
    /\ raw_output = None
    /\ generated_pitch = None
    /\ display_name = None
    /\ displayed = None
    /\ ui = << >>

CleanText ==
    /\ pc = "clean"
    /\ scraped_data' = clean_text(raw_text)
    /\ pc' = "cleaned"
    /\ UNCHANGED <<page, website_url, netloc, fetchCalls, completionCalls, response,
                   raw_text, completion, content_to_analyze, raw_output,
                   generated_pitch, display_name, displayed, ui>>

\* the result is the argument of a second call
CleanAgain ==
    /\ pc = "cleaned"
    /\ raw_text' = scraped_data
    /\ scraped_data' = clean_text(scraped_data)
    /\ pc' = "recleaned"
    /\ UNCHANGED <<page, website_url, netloc, fetchCalls, completionCalls, response,
                   completion, content_to_analyze, raw_output, generated_pitch,
                   display_name, displayed, ui>>

NextClean == CleanText \/ CleanAgain

SpecClean == InitClean /\ [][NextClean]_vars

\* the website's page grows by one node, until it is fetched
EditPage ==
    /\ pc = "scrape"
    /\ Len(page) < MaxNodes
    /\ \A k \in DOMAIN page : page[k] = GenNode(page[k].tag, page[k].parent, k)
    /\ page' \in Extend(page)
    /\ UNCHANGED <<pc, website_url, netloc, fetchCalls, completionCalls, response,
                   raw_text, scraped_data, completion, content_to_analyze, raw_output,
                   generated_pitch, display_name, displayed, ui>>

\* the website serves a catalogued page
PublishPage(doc) ==
    /\ pc = "scrape"
    /\ page = << >>
    /\ page' = doc
    /\ UNCHANGED <<pc, website_url, netloc, fetchCalls, completionCalls, response,
                   raw_text, scraped_data, completion, content_to_analyze, raw_output,
                   generated_pitch, display_name, displayed, ui>>

\* the extraction on every page of at most MaxNodes nodes and on the catalogue
NextExtract ==
    \/ Click(Url_upper)
    \/ EditPage
    \/ \E doc \in Docs : PublishPage(doc)
    \/ ScrapeResponse(page)

SpecExtract == Init /\ [][NextExtract]_vars

\* the parsing of every completion of at most MaxPieces pieces
NextParse ==
    \/ Click(Url_shop)
    \/ ScrapeResponse(Doc_example)
    \/ GenerateFails
    \/ \E ps \in SeqsUpTo(Pieces, MaxPieces) : GenerateResponse(GenResponse(ps))

SpecParse == Init /\ [][NextParse]_vars

\* the subject refinement on every domain of at most MaxLabels labels
NextName ==
    \/ \E ls \in SeqsUpTo(Labels, MaxLabels) : ls # << >> /\ Click(GenUrl(ls))
    \/ ScrapeResponse(Doc_example)
    \/ \E r \in {Resp_subject, Resp_no_marker} : GenerateResponse(r)

SpecName == Init /\ [][NextName]_vars

\* generate_llm_pitch on website texts around MAX_SCRAPED_TEXT_LENGTH: the run
\* has scraped a page whose body is the one text t
InitPrompt ==
    \E t \in LongTexts :
        /\ pc = "generate"
        /\ page = << >>
        /\ website_url = Url_plain
        /\ netloc = urlparse(Url_plain).netloc
        /\ fetchCalls = 1
        /\ completionCalls = 0
        /\ response = [status |-> "ok", doc |-> <<Elem("body", 0), Text(t, 1)>>]
        /\ raw_text = t
        /\ scraped_data = t
        /\ completion = NoCompletion
        /\ content_to_analyze = None
        /\ raw_output = None
        /\ generated_pitch = None
        /\ display_name = None
        /\ displayed = None
        /\ ui = <<Msg("success", "Successfully scraped content")>>

NextPrompt ==
    \/ GenerateFails
    \/ \E r \in Responses : GenerateResponse(r)

SpecPrompt == InitPrompt /\ [][NextPrompt]_vars

----------------------------------------------------------------------------
(* Properties *)

NoConsecutiveWhitespace(s) ==
    \A i \in 1..(Len(s) - 1) : ~(IsSpace(s[i]) /\ IsSpace(s[i + 1]))

OnlyPrintable(s) == \A i \in DOMAIN s : IsPrintable(s[i])

HasError == \E i \in DOMAIN ui : ui[i].kind = "error"

\* C1: every result of clean_text has no two consecutive whitespace characters
\* and no non-printable character (SpecClean).
C1_CleanTextNormalized ==
    pc \in {"cleaned", "recleaned"} =>
        NoConsecutiveWhitespace(scraped_data) /\ OnlyPrintable(scraped_data)

\* C2: clean_text is idempotent: applied to its own result it returns that
\* result (SpecClean).
C2_CleanTextIdempotent ==
    pc = "recleaned" => scraped_data = raw_text

\* the URL parses as an absolute http or https URL with a non-empty host
AbsoluteHttpUrl(url) ==
    /\ urlparse(url).scheme \in {<<"h","t","t","p">>, <<"h","t","t","p","s">>}
    /\ urlparse(url).netloc # << >>

NoNetworkCall == fetchCalls = 0 /\ completionCalls = 0

C4_CompletionOnlyAfterContent ==
    /\ fetchCalls <= 1
    /\ completionCalls > 0 =>
          /\ fetchCalls = 1
          /\ response.status = "ok"
          /\ scraped_data # None /\ Len(scraped_data) > 0
    /\ (fetchCalls = 1 /\ (response.status # "ok" \/ scraped_data \in {None, << >>})) =>
          /\ pc = "done"
          /\ completionCalls = 0
          /\ HasError

C4_Witness ==
    /\ pc = "done"
    /\ response.status = "Timeout"
    /\ completionCalls = 0
    /\ HasError

C4_WitnessEmpty ==
    /\ pc = "done"
    /\ response.status = "ok"
    /\ scraped_data = << >>
    /\ completionCalls = 0

\* C5: the website text in the prompt is the prefix of the extracted text of
\* length min(len(text), MAX_SCRAPED_TEXT_LENGTH) (SpecPrompt).
C5_PromptPrefix ==
    completionCalls > 0 =>
        /\ Len(content_to_analyze) <= MAX_SCRAPED_TEXT_LENGTH
        /\ Len(content_to_analyze) =
              IF Len(scraped_data) <= MAX_SCRAPED_TEXT_LENGTH
              THEN Len(scraped_data) ELSE MAX_SCRAPED_TEXT_LENGTH
        /\ \A i \in DOMAIN content_to_analyze : content_to_analyze[i] = scraped_data[i]
        /\ Len(scraped_data) <= MAX_SCRAPED_TEXT_LENGTH => content_to_analyze = scraped_data

C5_Witness ==
    /\ completionCalls > 0
    /\ Len(scraped_data) = MAX_SCRAPED_TEXT_LENGTH + Overrun
    /\ Len(content_to_analyze) = MAX_SCRAPED_TEXT_LENGTH

\* the 0-based places of s where "Subject:" stands in any letter case
SubjectPlaces(s) ==
    {i \in 0..(Len(s) - 8) :
        \A k \in 1..8 : s[i + k] \in {Str_Subject[k], Lower(Str_Subject[k]), Upper(Str_Subject[k])}}

\* C6: for a completion that holds "Subject:" in any letter case, the parsed
\* pitch is the trimmed completion from the first such token on, trimmed
\* (SpecParse).
C6_PitchFromFirstSubject ==
    (completion.ok /\ SubjectPlaces(completion.text) # {}) =>
        LET trimmed == Strip(completion.text)
            first == CHOOSE i \in SubjectPlaces(trimmed) :
                        \A j \in SubjectPlaces(trimmed) : i <= j
        IN /\ raw_output = trimmed
           /\ generated_pitch = Strip(SubSeq(trimmed, first + 1, Len(trimmed)))
           /\ SubSeq(trimmed, 1, first) \o generated_pitch = trimmed

C6_Witness ==
    /\ completion.ok
    /\ SubjectPlaces(completion.text) # {}
    /\ generated_pitch # None
    /\ Len(generated_pitch) < Len(raw_output)
    /\ Len(raw_output) < Len(completion.text)

\* C7: for a completion returned without any "Subject:", the run does not fail:
\* the pitch delivered is the whole trimmed completion, under the warning that
\* the strict parsing did not succeed (SpecParse).
C7_FallbackDelivered ==
    (pc = "done" /\ completion.ok /\ SubjectPlaces(completion.text) = {}) =>
        /\ generated_pitch = Strip(completion.text)
        /\ displayed = Strip(completion.text)
        /\ ~HasError
        /\ \E i \in DOMAIN ui : ui[i].kind = "warning"

\* the display name the claim describes: one leading "www." stripped, the first
\* letter of every word upper case, a word starting after "." or "-"
TitleCaseName(domain0) ==
    LET domain == IF StartsWith(domain0, Str_www) THEN SubSeq(domain0, 5, Len(domain0))
                  ELSE domain0
    IN [k \in DOMAIN domain |->
           IF k = 1 \/ domain[k - 1] \in {".", "-"}
           THEN Upper(domain[k]) ELSE Lower(domain[k])]

\* C8: the display name of the domain is its title-cased form, "-" a word
\* boundary; www.my-shop.co.uk gives My-Shop.Co.Uk (SpecName).
C8_DisplayNameTitleCase ==
    display_name # None =>
        /\ display_name = TitleCaseName(netloc)
        /\ netloc = <<"w","w","w",".","m","y","-","s","h","o","p",".","c","o",".","u","k">> => display_name = <<"M","y","-","S","h","o","p",".","C","o",".","U","k">>

\* a generated document: the text node at index k holds the k-th letter
IsGenerated(doc) ==
    \A k \in DOMAIN doc : doc[k] = GenNode(doc[k].tag, doc[k].parent, k)

\* the letters of a text
LettersOf(x) == IF x = None THEN {} ELSE Range(x) \cap Range(Lowers)

First(S) == IF S = {} THEN 0 ELSE CHOOSE i \in S : \A j \in S : i <= j

\* the names the claim excludes inside the chosen subtree
ExcludedInside == {"script", "style", "nav", "footer", "header", "aside", "button",
                   "form", "iframe", "img", "figure", "figcaption"}

\* the letters of the text nodes inside element m that are in no excluded
\* element inside m
LettersInside(doc, m) ==
    {doc[j].text[1] : j \in {j \in DOMAIN doc :
        /\ doc[j].tag = "#text"
        /\ m \in Ancestors(doc, j)
        /\ \A a \in Ancestors(doc, j) :
              m \in Ancestors(doc, a) => doc[a].tag \notin ExcludedInside}}

\* the elements that are inside no script, style, aside, link or meta element
\* and are none themselves
Kept(doc) ==
    {i \in DOMAIN doc :
        \A a \in {i} \cup Ancestors(doc, i) :
            doc[a].tag \notin {"script", "style", "aside", "link", "meta"}}

\* the first match in the order main, article, div role="main", body among S
Chosen(doc, S) ==
    LET named(t) == {i \in S : doc[i].tag = t}
        roleMain == {i \in S : doc[i].tag = "div" /\ doc[i].role = "main"}
    IN IF named("main") # {} THEN First(named("main"))
       ELSE IF named("article") # {} THEN First(named("article"))
       ELSE IF roleMain # {} THEN First(roleMain)
       ELSE First(named("body"))

Scraped(doc) == response = [status |-> "ok", doc |-> doc]

\* C9 as stated: for every document that has a main element, the text returned
\* is taken from inside a main element only, without the text of the excluded
\* elements inside it; the example document gives "Hello World" (SpecExtract).
C9_TextOnlyFromMain ==
    /\ (response.status = "ok" /\ IsGenerated(response.doc)
          /\ \E i \in DOMAIN response.doc : response.doc[i].tag = "main") =>
            \E m \in {i \in DOMAIN response.doc : response.doc[i].tag = "main"} :
                LettersOf(scraped_data) \subseteq LettersInside(response.doc, m)
    /\ Scraped(Doc_example) => scraped_data = <<"H","e","l","l","o"," ","W","o","r","l","d">>

\* C9 as amended: the subtree is chosen among the elements left by the initial
\* removal of the script, style, aside, link and meta elements; for every
\* document that has a main element outside all of these, the text returned is
\* taken from the first such main element only, without the text of the
\* excluded elements inside it (SpecExtract).
C9_TextOnlyFromKeptTarget ==
    /\ (response.status = "ok" /\ IsGenerated(response.doc)
          /\ Chosen(response.doc, Kept(response.doc)) # 0) =>
            /\ scraped_data # None
            /\ LettersOf(scraped_data) \subseteq
                  LettersInside(response.doc, Chosen(response.doc, Kept(response.doc)))
    /\ Scraped(Doc_example) => scraped_data = <<"H","e","l","l","o"," ","W","o","r","l","d">>

\* a main element with text inside, and text outside it that is not returned
C9_Witness ==
    /\ response.status = "ok"
    /\ IsGenerated(response.doc)
    /\ LET doc == response.doc
           m == Chosen(doc, Kept(doc))
       IN /\ m # 0
          /\ doc[m].tag = "main"
          /\ LettersOf(scraped_data) # {}
          /\ \E j \in Kept(doc) : /\ doc[j].tag = "#text"
                                  /\ m \notin Ancestors(doc, j)
                                  /\ doc[j].text[1] \notin LettersOf(scraped_data)

\* the document has no main, article, div role="main" or body element
NoTarget(doc) ==
    \A i \in DOMAIN doc :
        /\ doc[i].tag \notin {"main", "article", "body"}
        /\ ~(doc[i].tag = "div" /\ doc[i].role = "main")

\* C10 as stated: for a fetched document without body, main, article or div
\* role="main", the extraction returns the empty text and reports no error
\* (SpecExtract).
C10_NoTargetEmptyText ==
    (response.status = "ok" /\ NoTarget(response.doc)) =>
        /\ scraped_data = << >>
        /\ ~HasError

\* C10 as amended: for such a document the extraction returns None after
\* writing the error that no target element was found; nothing is raised, and
\* the run halts with the "could not get usable content" error and no call of
\* the backend (SpecExtract).
C10_NoTargetNone ==
    (response.status = "ok" /\ NoTarget(response.doc)) =>
        /\ scraped_data = None
        /\ ui = <<Msg("error", "Could not find 'main', 'article', 'div[role=main]', or even 'body' tag"),
                  Msg("error", "Could not get usable content")>>
        /\ pc = "done"
        /\ completionCalls = 0

C10_Witness ==
    /\ Scraped(Doc_no_body)
    /\ scraped_data = None
    /\ pc = "done"

====
